---- MODULE Spec2Model ----
(***************************************************************************)
(* Model of the environment configuration (src/config/env-config.ts) and   *)
(* of the runner stack constructor (src/unnamed/part_000, ASGRunnerStack). *)
(*                                                                         *)
(* JavaScript objects are records that carry exactly the keys that were    *)
(* assigned: a key that is not in DOMAIN reads as undefined.  The value    *)
(* undefined itself, where a whole object may be undefined, is Undefined.  *)
(* The scope of a stack is the account and region that the enclosing Stage *)
(* supplies: a record with neither key when no Stage supplies any.  The    *)
(* files are the paths under ./scripts that exist when the stack is built. *)
(* Strings the code takes apart or substitutes into a document (version,   *)
(* repo, region, the stage label, the Windows document) are sequences of   *)
(* one-character strings; strings the code only builds are TLA+ strings.   *)
(***************************************************************************)
EXTENDS Integers, Sequences, FiniteSets, TLC

VARIABLES pc, configFile, EnvConfig, files, scope, props, now, stack

vars == <<pc, configFile, EnvConfig, files, scope, props, now, stack>>

Undefined == [kind |-> "undefined"]

Has(obj, key) == obj # Undefined /\ key \in DOMAIN obj

\* obj?.key for a key whose value is an object
Get(obj, key) == IF Has(obj, key) THEN obj[key] ELSE Undefined

(***************************************************************************)
(* Bounds of the model.                                                    *)
(***************************************************************************)
MaxNow == 1
MaxDesiredInstances == 1

(***************************************************************************)
(* src/config/env-config.ts                                                *)
(***************************************************************************)
ConfigKeys == {"envDev", "envPipeline", "envBeta", "envProd", "envRelease"}

EnvObjects ==
  { [account |-> "111111111111", region |-> <<"u", "s", "-", "w", "e", "s", "t", "-", "2">>],
    [account |-> "222222222222", region |-> <<"u", "s", "-", "e", "a", "s", "t", "-", "1">>] }

\* every raw configuration: each recognised key absent or an environment
ConfigFiles == UNION { [K -> EnvObjects] : K \in SUBSET ConfigKeys }

Throw(msg) == [threw |-> TRUE, error |-> msg]

Return(obj) == [threw |-> FALSE, this |-> obj]

\* a variant that validates the stages out of order
EnvConfigClass_wrongOrder(file) ==
  IF Has(file, "envDev")
  THEN Return([isDev |-> TRUE, envPipeline |-> file.envDev, envBeta |-> file.envDev])
  ELSE IF ~Has(file, "envBeta") THEN Throw("Error: envBeta must be specified.")
  ELSE IF ~Has(file, "envPipeline") THEN Throw("Error: envPipeline must be specified.")
  ELSE IF ~Has(file, "envProd") THEN Throw("Error: envProd must be specified.")
  ELSE IF ~Has(file, "envRelease") THEN Throw("Error: envRelease must be specified.")
  ELSE Return([envPipeline |-> file.envPipeline, envBeta |-> file.envBeta,
               envProd |-> file.envProd, envRelease |-> file.envRelease])

\* a variant whose dev shortcut copies envBeta from its own key when present
EnvConfigClass_devBeta(file) ==
  IF Has(file, "envDev")
  THEN Return([isDev |-> TRUE, envPipeline |-> file.envDev,
               envBeta |-> IF Has(file, "envBeta") THEN file.envBeta ELSE file.envDev])
  ELSE IF ~Has(file, "envPipeline") THEN Throw("Error: envPipeline must be specified.")
  ELSE IF ~Has(file, "envBeta") THEN Throw("Error: envBeta must be specified.")
  ELSE IF ~Has(file, "envProd") THEN Throw("Error: envProd must be specified.")
  ELSE IF ~Has(file, "envRelease") THEN Throw("Error: envRelease must be specified.")
  ELSE Return([envPipeline |-> file.envPipeline, envBeta |-> file.envBeta,
               envProd |-> file.envProd, envRelease |-> file.envRelease])

\* new EnvConfigClass(configFile): the constructed object, or the Error thrown.
\* A field the constructor never assigns (isDev outside dev mode, envProd and
\* envRelease in dev mode) is left out of the object.
EnvConfigClass(file) ==
  IF Has(file, "envDev")
  THEN Return([isDev |-> TRUE, envPipeline |-> file.envDev, envBeta |-> file.envDev])
  ELSE IF ~Has(file, "envPipeline") THEN Throw("Error: envPipeline must be specified.")
  ELSE IF ~Has(file, "envBeta") THEN Throw("Error: envBeta must be specified.")
  ELSE IF ~Has(file, "envProd") THEN Throw("Error: envProd must be specified.")
  ELSE IF ~Has(file, "envRelease") THEN Throw("Error: envRelease must be specified.")
  ELSE Return([envPipeline |-> file.envPipeline, envBeta |-> file.envBeta,
               envProd |-> file.envProd, envRelease |-> file.envRelease])

(***************************************************************************)
(* Strings.  A string the code splits is a sequence of characters; ToStr   *)
(* turns it into the text that a template literal interpolates.            *)
(***************************************************************************)
RECURSIVE ToStr(_)
ToStr(chars) == IF chars = <<>> THEN "" ELSE Head(chars) \o ToStr(Tail(chars))

\* s.split(sep)[0]: the characters before the first sep, all of s if none
SplitFirst(chars, sep) ==
  LET at == { i \in 1..Len(chars) : chars[i] = sep }
  IN IF at = {} THEN chars
     ELSE SubSeq(chars, 1, (CHOOSE i \in at : \A j \in at : i <= j) - 1)

\* `${obj?.key}` for a string-valued key: a missing value prints as undefined
Interpolate(obj, key) == IF Has(obj, key) THEN obj[key] ELSE "undefined"

\* the same for a key whose value is held as characters
InterpolateChars(obj, key) == IF Has(obj, key) THEN ToStr(obj[key]) ELSE "undefined"

\* the position of the first occurrence of pattern in chars, 0 if none
IndexOf(chars, pattern) ==
  LET at == { i \in 1..(Len(chars) - Len(pattern) + 1) :
                SubSeq(chars, i, i + Len(pattern) - 1) = pattern }
  IN IF at = {} THEN 0 ELSE CHOOSE i \in at : \A j \in at : i <= j

\* the grave accent, which a TLA+ string cannot hold, as a character
Grave == "GRAVE"

\* GetSubstitution for a string pattern (no captures): in the replacement
\* text $$ is a dollar sign, $& the matched text, $ with a grave accent the
\* text before the match and $' the text after it; any other $ stands for
\* itself
RECURSIVE GetSubstitution(_, _, _, _)
GetSubstitution(matched, before, after, text) ==
  IF text = <<>> THEN <<>>
  ELSE IF Head(text) = "$" /\ Len(text) >= 2 /\ text[2] \in {"$", "&", Grave, "'"}
  THEN (IF text[2] = "$" THEN <<"$">>
        ELSE IF text[2] = "&" THEN matched
        ELSE IF text[2] = Grave THEN before
        ELSE after)
       \o GetSubstitution(matched, before, after, Tail(Tail(text)))
  ELSE <<Head(text)>> \o GetSubstitution(matched, before, after, Tail(text))

\* chars.replace(pattern, text) with a string pattern: only the first
\* occurrence is replaced, and the replacement text is interpreted
ReplaceFirst(chars, pattern, text) ==
  LET i == IndexOf(chars, pattern)
      before == SubSeq(chars, 1, i - 1)
      after == SubSeq(chars, i + Len(pattern), Len(chars))
  IN IF i = 0 THEN chars
     ELSE before \o GetSubstitution(pattern, before, after, text) \o after

(***************************************************************************)
(* Enumerations imported by the stack (../config/runner-config and         *)
(* ./finch-pipeline-app-stage) and the script files read from ./scripts.   *)
(***************************************************************************)
MAC == "mac"

WINDOWS == "windows"

AMAZONLINUX == "amazonlinux"

FEDORA == "fedora"

Beta == "Beta"

Prod == "Prod"

Release == "Release"

\* file contents; the Windows document is held as characters so that its
\* placeholders can be replaced
FileContents(path) ==
  IF path = "./scripts/windows-runner-user-data.yaml"
  THEN <<"r", "u", "n", "A", "s", ":", " ", "a", "d", "m", "i", "n", "\n",
       "$", "S", "T", "A", "G", "E", "=", "'", "<", "S", "T", "A", "G", "E", ">", "'", "\n",
       "$", "R", "E", "P", "O", "=", "'", "<", "R", "E", "P", "O", ">", "'", "\n",
       "$", "R", "E", "G", "I", "O", "N", "=", "'", "<", "R", "E", "G", "I", "O", "N", ">", "'", "\n">>
  ELSE <<"[", path, "]">>

\* readFileSync(path, 'utf8') with the files fs present: the contents, or
\* the Error of a path that does not exist
readFileSync(fs, path) ==
  IF path \notin fs
  THEN Throw("ENOENT: no such file or directory, open '" \o path \o "'")
  ELSE Return(FileContents(path))

(***************************************************************************)
(* src/unnamed/part_000                                                    *)
(***************************************************************************)
StageLabel(stage) == IF stage = Release THEN <<"r", "e", "l", "e", "a", "s", "e">> ELSE <<"t", "e", "s", "t">>

\* the text, or the Error of reading the script
userData(fs, p, setupScriptName) ==
  LET script == readFileSync(fs, "./scripts/" \o setupScriptName)
  IN IF script.threw THEN script
     ELSE Return("#!/bin/bash\nLABEL_STAGE=" \o ToStr(StageLabel(p.stage))
                   \o "\nREPO=" \o ToStr(p.type.repo)
                   \o "\nREGION=" \o InterpolateChars(p.env, "region")
                   \o "\n" \o ToStr(script.this))

\* the locals of the constructor before the switch
Locals0 == [instanceType |-> "", machineImage |-> Undefined, userDataString |-> "", asgName |-> ""]

amiSearchString(p) == "amzn-ec2-macos-" \o ToStr(p.type.version) \o "*"

macOSArchLookup(p) ==
  IF p.type.arch = "arm" THEN "arm64_" \o p.type.platform ELSE "x86_64_" \o p.type.platform

\* case PlatformType.MAC: { ... }: the locals after the block, or the Error
\* thrown in it
CaseMac(fs, p, l) ==
  LET text == userData(fs, p, "setup-runner.sh")
  IN IF text.threw THEN text
     ELSE Return(
       [ instanceType |-> IF p.type.arch = "arm" THEN "mac2.metal" ELSE "mac1.metal",
         machineImage |-> [ image |-> "LookupMachineImage",
                            name |-> amiSearchString(p),
                            virtualizationType |-> <<"hvm">>,
                            rootDeviceType |-> <<"ebs">>,
                            architecture |-> <<macOSArchLookup(p)>>,
                            ownerAlias |-> <<"amazon">> ],
         asgName |-> "MacASG",
         userDataString |-> text.this ])

\* case PlatformType.WINDOWS: { ... }
CaseWindows(fs, p, l) ==
  LET document == readFileSync(fs, "./scripts/windows-runner-user-data.yaml")
  IN IF document.threw THEN document
     ELSE Return(
       [ instanceType |-> "m5zn.metal",
         asgName |-> "WindowsASG",
         machineImage |-> [ image |-> "latestWindows",
                            version |-> "WINDOWS_SERVER_2022_ENGLISH_FULL_BASE" ],
         userDataString |->
           ToStr(ReplaceFirst(
                   ReplaceFirst(
                     ReplaceFirst(document.this,
                                  <<"<", "S", "T", "A", "G", "E", ">">>, StageLabel(p.stage)),
                     <<"<", "R", "E", "P", "O", ">">>, p.type.repo),
                   <<"<", "R", "E", "G", "I", "O", "N", ">">>,
                   IF Has(p.env, "region") THEN p.env.region ELSE <<>>)) ])

\* a variant that picks the Graviton shape for everything but x86
LinuxInstanceType_notX86(arch) == IF arch = "x86" THEN "c7a.large" ELSE "c7g.large"

LinuxInstanceType(arch) == IF arch = "arm" THEN "c7g.large" ELSE "c7a.large"

\* a variant that treats every version beginning with 2 as Amazon Linux 2
AmazonLinuxImage_prefix(version) ==
  IF version # <<>> /\ Head(version) = "2"
  THEN [image |-> "latestAmazonLinux2"]
  ELSE [image |-> "latestAmazonLinux2023"]

AmazonLinuxImage(version) ==
  IF version = <<"2">>
  THEN [image |-> "latestAmazonLinux2"]
  ELSE [image |-> "latestAmazonLinux2023"]

GenericLinuxImage(arch) ==
  [ image |-> "genericLinux",
    amiMap |-> ("us-east-2" :> (IF arch = "arm" THEN "ami-02f1e969ae0fdff65" ELSE "ami-097f74237291abc07"))
            @@ ("us-east-1" :> (IF arch = "arm" THEN "ami-0d3825b70fa928886" ELSE "ami-004f552bba0e5f64f")) ]

\* default: { ... }
CaseDefault(fs, p, l) ==
  LET text == userData(fs, p, "setup-linux-runner.sh")
  IN IF text.threw THEN text
     ELSE Return(
       [ instanceType |-> LinuxInstanceType(p.type.arch),
         asgName |-> "LinuxASG",
         userDataString |-> text.this,
         machineImage |-> IF p.type.platform = AMAZONLINUX
                          THEN AmazonLinuxImage(p.type.version)
                          ELSE GenericLinuxImage(p.type.arch) ])

\* the blocks from the WINDOWS label on
FromWindows(fs, p, l) ==
  LET windows == CaseWindows(fs, p, l)
  IN IF windows.threw THEN windows ELSE CaseDefault(fs, p, windows.this)

\* the blocks from the MAC label on
FromMac(fs, p, l) ==
  LET mac == CaseMac(fs, p, l)
  IN IF mac.threw THEN mac ELSE FromWindows(fs, p, mac.this)

\* switch (platform): no case ends in a break, so control entering at a
\* case label runs every later case block as well
SwitchPlatform(fs, p) ==
  IF p.type.platform = MAC THEN FromMac(fs, p, Locals0)
  ELSE IF p.type.platform = WINDOWS THEN FromWindows(fs, p, Locals0)
  ELSE CaseDefault(fs, p, Locals0)

\* props.env == undefined
EnvIsUndefined(env) == env = Undefined

secretArn(p) ==
  "arn:aws:secretsmanager:" \o InterpolateChars(p.env, "region") \o ":"
    \o Interpolate(p.env, "account") \o ":secret:" \o ToStr(p.type.repo) \o "-runner-reg-key*"

resourceGroupName(type) ==
  ToStr(type.repo) \o "-" \o type.platform \o "-"
    \o ToStr(SplitFirst(type.version, ".")) \o "-" \o type.arch \o "HostGroup"

rootVolume == [deviceName |-> "/dev/sda1", ebsGiB |-> 100]

rollingUpdate ==
  [ maxBatchSize |-> 1,
    minInstancesInService |-> 0,
    suspendProcesses |-> {"HEALTH_CHECK", "REPLACE_UNHEALTHY", "AZ_REBALANCE",
                          "ALARM_NOTIFICATION", "SCHEDULED_ACTIONS"},
    waitOnResourceSignals |-> FALSE ]

(***************************************************************************)
(* Date.prototype.toISOString for a time in milliseconds since the epoch:  *)
(* YYYY-MM-DDTHH:mm:ss.sssZ in the proleptic Gregorian calendar.           *)
(***************************************************************************)
DigitStr(d) == <<"0", "1", "2", "3", "4", "5", "6", "7", "8", "9">>[d + 1]

Pad2(n) == DigitStr((n \div 10) % 10) \o DigitStr(n % 10)

Pad3(n) == DigitStr((n \div 100) % 10) \o Pad2(n)

Pad4(n) == DigitStr((n \div 1000) % 10) \o Pad3(n)

DayMillis == 1 * 24 * 60 * 60 * 1000

toISOString(t) ==
  LET days == t \div DayMillis
      ms   == t % DayMillis
      z    == days + 719468
      era  == z \div 146097
      doe  == z - era * 146097
      yoe  == (doe - doe \div 1460 + doe \div 36524 - doe \div 146096) \div 365
      doy  == doe - (365 * yoe + yoe \div 4 - yoe \div 100)
      mp   == (5 * doy + 2) \div 153
      d    == doy - (153 * mp + 2) \div 5 + 1
      m    == IF mp < 10 THEN mp + 3 ELSE mp - 9
      y    == yoe + era * 400 + (IF m <= 2 THEN 1 ELSE 0)
  IN Pad4(y) \o "-" \o Pad2(m) \o "-" \o Pad2(d) \o "T"
       \o Pad2(ms \div 3600000) \o ":" \o Pad2((ms \div 60000) % 60) \o ":"
       \o Pad2((ms \div 1000) % 60) \o "." \o Pad3(ms % 1000) \o "Z"

\* a variant that spins down every stage but Release
ScheduledActions_notRelease(stage, t) ==
  IF stage # Release
  THEN { [ id |-> "SpinDownBetaInstances",
           startTime |-> toISOString(t + DayMillis),
           desiredCapacity |-> 0 ] }
  ELSE {}

\* the CfnScheduledAction resources of the stack; t is new Date().getTime()
ScheduledActions(stage, t) ==
  IF stage = Beta
  THEN { [ id |-> "SpinDownBetaInstances",
           startTime |-> toISOString(t + 1 * 24 * 60 * 60 * 1000),
           desiredCapacity |-> 0 ] }
  ELSE {}

\* super(scope, id, props): the stack's account or region is the one in
\* props.env, else the one of the enclosing Stage, else an unresolved token
StackResolves(sc, env, key) == Has(env, key) \/ Has(sc, key)

StackValue(sc, env, key) == IF Has(env, key) THEN env[key] ELSE sc[key]

\* cdk.aws_ec2.Vpc.fromLookup(this, 'VPC', { isDefault: true }): a context
\* lookup throws in a stack whose account or region is unresolved
VpcLookupThrows(sc, env) ==
  ~(StackResolves(sc, env, "account") /\ StackResolves(sc, env, "region"))

\* the Error of ContextProvider.getValue in such a stack
ContextLookupError(provider) ==
  "Cannot retrieve value from context provider " \o provider
    \o " since account/region are not specified at the stack level."
    \o " Configure \"env\" with an account and region when you define your stack."
    \o "See https://docs.aws.amazon.com/cdk/latest/guide/environments.html for more details."

\* machineImage.getImage, called by new ec2.LaunchTemplate: a region map has
\* no image for a region that is not one of its keys
GetImageThrows(image, region) ==
  image.image = "genericLinux" /\ ToStr(region) \notin DOMAIN image.amiMap

\* new ASGRunnerStack(scope, id, props) at time t: the resources the stack
\* declares, or the Error thrown
ASGRunnerStack(fs, sc, p, t) ==
  LET switch == SwitchPlatform(fs, p)
      l == switch.this
  IN IF switch.threw
     THEN switch
     ELSE IF EnvIsUndefined(p.env)
     THEN Throw("Runner environment is undefined!")
     ELSE IF VpcLookupThrows(sc, p.env)
     THEN Throw(ContextLookupError("vpc-provider"))
     ELSE IF GetImageThrows(l.machineImage, StackValue(sc, p.env, "region"))
     THEN Throw("Unable to find AMI in AMI map: no AMI specified for region '"
                  \o ToStr(StackValue(sc, p.env, "region")) \o "'")
     ELSE Return(
       [ secretResource |-> secretArn(p),
         resourceGroupName |-> resourceGroupName(p.type),
         launchTemplate |->
           [ id |-> l.asgName \o "LaunchTemplate",
             requireImdsv2 |-> TRUE,
             instanceType |-> l.instanceType,
             keyPair |-> l.asgName \o "KeyPair",
             machineImage |-> l.machineImage,
             userData |-> l.userDataString,
             blockDevices |-> <<rootVolume>> ],
         asg |->
           [ id |-> l.asgName,
             desiredCapacity |-> p.type.desiredInstances,
             maxCapacity |-> p.type.desiredInstances,
             minCapacity |-> 0,
             updatePolicy |-> rollingUpdate ],
         scheduledActions |-> ScheduledActions(p.stage, t) ])

(***************************************************************************)
(* Inputs of the constructor.                                              *)
(***************************************************************************)
Platforms == {MAC, WINDOWS, AMAZONLINUX, FEDORA, "ubuntu"}

Archs == {"x86", "arm", "riscv64"}

Versions ==
  { <<"2">>, <<"2", "0", "2", "3">>, <<"1", "4", ".", "1">>, <<"1", "4", ".", "2">>,
    <<"1", "-", "m", "a", "c", "-", "2">> }

Repos == { <<"a">>, <<"a", "-", "m", "a", "c", "-", "1">> }

Stages == {Beta, Prod, Release}

RunnerTypes ==
  [ platform : Platforms, arch : Archs, version : Versions, repo : Repos,
    desiredInstances : 0..MaxDesiredInstances ]

\* cdk.Environment | undefined: account and region are both optional
Environments ==
  { Undefined,
    [k \in {} |-> ""],
    [region |-> <<"u", "s", "-", "e", "a", "s", "t", "-", "1">>],
    [account |-> "123"],
    [account |-> "123", region |-> <<"u", "s", "-", "e", "a", "s", "t", "-", "1">>],
    [account |-> "123", region |-> <<"u", "s", "-", "w", "e", "s", "t", "-", "2">>] }

\* the file systems: every script exists, or all but one
Scripts ==
  { "./scripts/setup-runner.sh", "./scripts/windows-runner-user-data.yaml",
    "./scripts/setup-linux-runner.sh" }

FileSystems == {Scripts} \cup { Scripts \ {path} : path \in Scripts }

NoStage == [k \in {} |-> ""]

\* what the enclosing Stage supplies: nothing, or an account and a region
Scopes ==
  { NoStage,
    [account |-> "999", region |-> <<"u", "s", "-", "e", "a", "s", "t", "-", "2">>],
    [account |-> "999", region |-> <<"e", "u", "-", "w", "e", "s", "t", "-", "1">>] }

NoScope == [kind |-> "none"]

PropsSet == [ env : Environments, stage : Stages, type : RunnerTypes ]

NoProps == [kind |-> "none"]

NotBuilt == [kind |-> "none"]

NotLoaded == [kind |-> "none"]

(***************************************************************************)
(* Loading the module src/config/env-config.ts evaluates                   *)
(*   export const EnvConfig = new EnvConfigClass(config)                   *)
(* once.  The constructor either returns the object or throws.             *)
(***************************************************************************)
LoadEnvConfig ==
  /\ pc = "load"
  /\ ~EnvConfigClass(configFile).threw
  /\ EnvConfig' = EnvConfigClass(configFile)
  /\ pc' = "loaded"
  /\ UNCHANGED <<configFile, files, scope, props, now, stack>>

LoadEnvConfigThrows ==
  /\ pc = "load"
  /\ EnvConfigClass(configFile).threw
  /\ EnvConfig' = EnvConfigClass(configFile)
  /\ pc' = "failed"
  /\ UNCHANGED <<configFile, files, scope, props, now, stack>>

\* new ASGRunnerStack(...) returns
NewASGRunnerStack ==
  /\ pc = "construct"
  /\ ~ASGRunnerStack(files, scope, props, now).threw
  /\ stack' = ASGRunnerStack(files, scope, props, now)
  /\ pc' = "built"
  /\ UNCHANGED <<configFile, EnvConfig, files, scope, props, now>>

\* new ASGRunnerStack(...) throws
NewASGRunnerStackThrows ==
  /\ pc = "construct"
  /\ ASGRunnerStack(files, scope, props, now).threw
  /\ stack' = ASGRunnerStack(files, scope, props, now)
  /\ pc' = "threw"
  /\ UNCHANGED <<configFile, EnvConfig, files, scope, props, now>>

(***************************************************************************)
(* The application (not under src/): the environment configuration is      *)
(* resolved once at process start, a failure there is fatal, and its       *)
(* output is threaded into the resolution of each runner plan.  The body   *)
(* of a module that imports EnvConfig runs only after env-config.ts has    *)
(* been evaluated without throwing.  In dev mode there is only the beta    *)
(* environment.  No Stage supplies an account or a region.                 *)
(***************************************************************************)
RunnerCatalog ==
  { [platform |-> MAC, arch |-> "arm", version |-> <<"1", "4", ".", "1">>,
     repo |-> <<"a">>, desiredInstances |-> 1],
    [platform |-> WINDOWS, arch |-> "x86", version |-> <<"2", "0", "2", "2">>,
     repo |-> <<"a">>, desiredInstances |-> 1],
    [platform |-> AMAZONLINUX, arch |-> "arm", version |-> <<"2", "0", "2", "3">>,
     repo |-> <<"a">>, desiredInstances |-> 0],
    [platform |-> FEDORA, arch |-> "x86", version |-> <<"4", "0">>,
     repo |-> <<"a">>, desiredInstances |-> 1] }

StagesOf(config) == IF Has(config, "isDev") THEN {Beta} ELSE Stages

StageKey(stage) ==
  IF stage = Beta THEN "envBeta" ELSE IF stage = Prod THEN "envProd" ELSE "envRelease"

StageEnv(config, stage) == Get(config, StageKey(stage))

\* a variant that carries on after a failed load with the raw configuration
DeployStack_afterFailure ==
  /\ pc \in {"loaded", "failed"}
  /\ \E type \in RunnerCatalog, stage \in Stages, t \in now..MaxNow :
       /\ scope' = NoStage
       /\ props' = [env |-> StageEnv(configFile, stage), stage |-> stage, type |-> type]
       /\ now' = t
       /\ stack' = ASGRunnerStack(files, scope', props', t)
  /\ UNCHANGED <<pc, configFile, EnvConfig, files>>

DeployStack ==
  /\ pc = "loaded"
  /\ \E type \in RunnerCatalog, stage \in StagesOf(EnvConfig.this), t \in now..MaxNow :
       /\ scope' = NoStage
       /\ props' = [env |-> StageEnv(EnvConfig.this, stage), stage |-> stage, type |-> type]
       /\ now' = t
       /\ stack' = ASGRunnerStack(files, scope', props', t)
  /\ UNCHANGED <<pc, configFile, EnvConfig, files>>

NoConfig == [kind |-> "none"]

\* the configuration module on its own
InitEnv ==
  /\ pc = "load"
  /\ configFile \in ConfigFiles
  /\ EnvConfig = NotLoaded
  /\ files = Scripts
  /\ scope = NoScope
  /\ props = NoProps
  /\ now = 0
  /\ stack = NotBuilt

NextEnv == LoadEnvConfig \/ LoadEnvConfigThrows

SpecEnv == InitEnv /\ [][NextEnv]_vars

\* the stack constructor on its own, over every props value
InitStack ==
  /\ pc = "construct"
  /\ configFile = NoConfig
  /\ EnvConfig = NotLoaded
  /\ files \in FileSystems
  /\ scope \in Scopes
  /\ props \in PropsSet
  /\ now \in 0..MaxNow
  /\ stack = NotBuilt

NextStack == NewASGRunnerStack \/ NewASGRunnerStackThrows

SpecStack == InitStack /\ [][NextStack]_vars

\* the application
Init ==
  /\ pc = "load"
  /\ configFile \in ConfigFiles
  /\ EnvConfig = NotLoaded
  /\ files = Scripts
  /\ scope = NoScope
  /\ props = NoProps
  /\ now = 0
  /\ stack = NotBuilt

Next == LoadEnvConfig \/ LoadEnvConfigThrows \/ DeployStack

Spec == Init /\ [][Next]_vars

(***************************************************************************)
(* Properties.                                                             *)
(***************************************************************************)
RequiredKeys == <<"envPipeline", "envBeta", "envProd", "envRelease">>

MissingKeys(file) == { i \in 1..Len(RequiredKeys) : ~Has(file, RequiredKeys[i]) }

FirstMissing(file) ==
  RequiredKeys[CHOOSE i \in MissingKeys(file) : \A j \in MissingKeys(file) : i <= j]

\* C4: without envDev, the configuration loads exactly when envPipeline,
\* envBeta, envProd and envRelease are all present, and then every field
\* equals its input; otherwise the constructor throws, no object exists, and
\* the one error names the first missing key in that order.
C4_FailFastInOrder ==
  (pc # "load" /\ ~Has(configFile, "envDev")) =>
    IF MissingKeys(configFile) # {}
    THEN /\ pc = "failed"
         /\ EnvConfig = [threw |-> TRUE,
                         error |-> "Error: " \o FirstMissing(configFile) \o " must be specified."]
    ELSE /\ pc = "loaded"
         /\ ~EnvConfig.threw
         /\ \A i \in 1..Len(RequiredKeys) :
              /\ Has(EnvConfig.this, RequiredKeys[i])
              /\ EnvConfig.this[RequiredKeys[i]] = configFile[RequiredKeys[i]]

\* two keys are missing and envPipeline is not one of them
C4_Witness ==
  /\ pc = "failed"
  /\ DOMAIN configFile = {"envPipeline", "envProd"}
  /\ EnvConfig.error = "Error: envBeta must be specified."

IsDev(config) == Has(config, "isDev") /\ config.isDev = TRUE

\* C5: with envDev present the configuration always loads, with isDev true,
\* envPipeline = envBeta = envDev and neither envProd nor envRelease, whatever
\* the other keys hold; and every loaded configuration is either such a dev
\* configuration or has all four stage fields.
C5_DevShortcut ==
  /\ (pc # "load" /\ Has(configFile, "envDev")) =>
       /\ pc = "loaded"
       /\ ~EnvConfig.threw
       /\ IsDev(EnvConfig.this)
       /\ EnvConfig.this.envPipeline = configFile.envDev
       /\ EnvConfig.this.envBeta = configFile.envDev
  /\ pc = "loaded" =>
       IF IsDev(EnvConfig.this)
       THEN /\ EnvConfig.this.envBeta = EnvConfig.this.envPipeline
            /\ ~Has(EnvConfig.this, "envProd")
            /\ ~Has(EnvConfig.this, "envRelease")
       ELSE \A i \in 1..Len(RequiredKeys) : Has(EnvConfig.this, RequiredKeys[i])

\* a dev configuration whose other keys are present and differ from envDev
C5_Witness ==
  /\ pc = "loaded"
  /\ DOMAIN configFile = ConfigKeys
  /\ configFile.envBeta # configFile.envDev
  /\ configFile.envPipeline # configFile.envDev
  /\ EnvConfig.this.envBeta = configFile.envDev

Plan == stack.this

\* the shell user-data: the generated preamble and then the named script
Preamble(p, script) ==
  "#!/bin/bash\nLABEL_STAGE=" \o (IF p.stage = Release THEN "release" ELSE "test")
    \o "\nREPO=" \o ToStr(p.type.repo)
    \o "\nREGION=" \o (IF Has(p.env, "region") THEN ToStr(p.env.region) ELSE "undefined")
    \o "\n[./scripts/" \o script \o "]"

LinuxPreamble(p) == Preamble(p, "setup-linux-runner.sh")

\* C1: a MAC descriptor resolves to the MAC row: mac2.metal (arm) or
\* mac1.metal, MacASG, the amzn-ec2-macos-<version>* lookup with the
\* arm64_mac / x86_64_mac filter, and user-data from setup-runner.sh.
C1_MacRow ==
  (pc = "built" /\ props.type.platform = MAC) =>
    /\ Plan.launchTemplate.instanceType =
         (IF props.type.arch = "arm" THEN "mac2.metal" ELSE "mac1.metal")
    /\ Plan.asg.id = "MacASG"
    /\ Plan.launchTemplate.machineImage.image = "LookupMachineImage"
    /\ Plan.launchTemplate.machineImage.name =
         "amzn-ec2-macos-" \o ToStr(props.type.version) \o "*"
    /\ props.type.arch = "arm" =>
         Plan.launchTemplate.machineImage.architecture = <<"arm64_mac">>
    /\ props.type.arch = "x86" =>
         Plan.launchTemplate.machineImage.architecture = <<"x86_64_mac">>
    /\ Plan.launchTemplate.userData = Preamble(props, "setup-runner.sh")

\* C2: a WINDOWS descriptor resolves to m5zn.metal, WindowsASG, the Windows
\* Server 2022 image and the Windows document with <STAGE>, <REPO> and
\* <REGION> substituted.
C2_WindowsRow ==
  (pc = "built" /\ props.type.platform = WINDOWS) =>
    /\ Plan.launchTemplate.instanceType = "m5zn.metal"
    /\ Plan.asg.id = "WindowsASG"
    /\ Plan.launchTemplate.machineImage =
         [image |-> "latestWindows", version |-> "WINDOWS_SERVER_2022_ENGLISH_FULL_BASE"]
    /\ Plan.launchTemplate.userData =
         "runAs: admin\n$STAGE='" \o (IF props.stage = Release THEN "release" ELSE "test")
           \o "'\n$REPO='" \o ToStr(props.type.repo)
           \o "'\n$REGION='"
           \o (IF Has(props.env, "region") THEN ToStr(props.env.region) ELSE "")
           \o "'\n"

Unsupported(type) ==
  \/ type.platform \notin {MAC, WINDOWS, AMAZONLINUX, FEDORA}
  \/ type.arch \notin {"x86", "arm"}

\* C3 as stated: a descriptor outside the dispatch table makes the
\* constructor fail and never yields a plan.
C3_UnsupportedRejected ==
  (pc # "construct" /\ Unsupported(props.type)) => pc = "threw"

\* C3 as amended: a descriptor outside the dispatch table is not rejected
\* for its platform or arch; when the constructor returns for one whose
\* platform is neither MAC nor WINDOWS, the plan carries the Linux defaults:
\* c7g.large for arm and c7a.large for every other arch, LinuxASG, and
\* user-data from setup-linux-runner.sh.
C3_UnsupportedGetsLinuxDefaults ==
  (pc = "built" /\ Unsupported(props.type) /\ props.type.platform \notin {MAC, WINDOWS}) =>
    /\ Plan.launchTemplate.instanceType =
         (IF props.type.arch = "arm" THEN "c7g.large" ELSE "c7a.large")
    /\ Plan.asg.id = "LinuxASG"
    /\ Plan.launchTemplate.userData = LinuxPreamble(props)

\* an unknown platform on an unknown arch, built with the x86 shape
C3_Witness ==
  /\ pc = "built"
  /\ props.type.platform = "ubuntu"
  /\ props.type.arch = "riscv64"
  /\ Plan.launchTemplate.instanceType = "c7a.large"
  /\ Plan.asg.id = "LinuxASG"

\* C6: the constructor throws, and produces no stack, whenever the
\* environment is undefined or lacks a region or an account; it returns only
\* when the environment has both.
C6_RegionAndAccountRequired ==
  (pc # "construct" /\ ~(Has(props.env, "region") /\ Has(props.env, "account"))) =>
    pc = "threw"

\* C7: an AMAZONLINUX descriptor gets the Amazon Linux 2 image exactly when
\* its version is "2" and the Amazon Linux 2023 image otherwise, c7g.large
\* for arm and c7a.large for x86, LinuxASG, and user-data from
\* setup-linux-runner.sh.
C7_AmazonLinuxRow ==
  (pc = "built" /\ props.type.platform = AMAZONLINUX) =>
    /\ Plan.launchTemplate.machineImage =
         (IF ToStr(props.type.version) = "2"
          THEN [image |-> "latestAmazonLinux2"]
          ELSE [image |-> "latestAmazonLinux2023"])
    /\ props.type.arch = "arm" => Plan.launchTemplate.instanceType = "c7g.large"
    /\ props.type.arch = "x86" => Plan.launchTemplate.instanceType = "c7a.large"
    /\ Plan.asg.id = "LinuxASG"
    /\ Plan.launchTemplate.userData = LinuxPreamble(props)

\* version 2023 on x86
C7_Witness ==
  /\ pc = "built"
  /\ props.type.platform = AMAZONLINUX
  /\ ToStr(props.type.version) = "2023"
  /\ props.type.arch = "x86"
  /\ Plan.launchTemplate.machineImage = [image |-> "latestAmazonLinux2023"]
  /\ Plan.launchTemplate.instanceType = "c7a.large"

\* C8: every built stack has the rolling update with batch size 1, no
\* minimum in service and the five suspended processes; it has a scheduled
\* action exactly when the stage is Beta, and that action sets the desired
\* capacity to 0 at the construction time plus 24 hours.
C8_UpdatePolicy ==
  pc = "built" =>
    /\ Plan.asg.updatePolicy.maxBatchSize = 1
    /\ Plan.asg.updatePolicy.minInstancesInService = 0
    /\ Plan.asg.updatePolicy.suspendProcesses =
         {"HEALTH_CHECK", "REPLACE_UNHEALTHY", "AZ_REBALANCE",
          "ALARM_NOTIFICATION", "SCHEDULED_ACTIONS"}
    /\ Plan.scheduledActions # {} <=> props.stage = Beta
    /\ \A a \in Plan.scheduledActions :
         /\ a.desiredCapacity = 0
         /\ a.startTime = toISOString(now + 24 * 3600 * 1000)
         /\ now < 1000 => a.startTime = "1970-01-02T00:00:00." \o Pad3(now) \o "Z"
    /\ Cardinality(Plan.scheduledActions) <= 1

\* a Beta stack built one millisecond after the epoch
C8_Witness ==
  /\ pc = "built"
  /\ props.stage = Beta
  /\ now = 1
  /\ Plan.scheduledActions =
       { [id |-> "SpinDownBetaInstances", startTime |-> "1970-01-02T00:00:00.001Z",
          desiredCapacity |-> 0] }

NameKey(type) == <<type.repo, type.platform, SplitFirst(type.version, "."), type.arch>>

\* C9: the resource group name is <repo>-<platform>-<major>-<arch>HostGroup,
\* and two descriptors get the same name exactly when they agree on repo,
\* platform, major version and arch.
C9_NameInjective ==
  pc = "built" =>
    /\ Plan.resourceGroupName =
         ToStr(props.type.repo) \o "-" \o props.type.platform \o "-"
           \o ToStr(SplitFirst(props.type.version, ".")) \o "-"
           \o props.type.arch \o "HostGroup"
    /\ \A other \in RunnerTypes :
         (NameKey(other) = NameKey(props.type))
           <=> (resourceGroupName(other) = Plan.resourceGroupName)

====
